---- MODULE Spec2Model ----
(***************************************************************************)
(* Model of the MCTS agents of ginkgo_rl/agents/mcts.py: BaseMCTSAgent     *)
(* (budget, simulation passes, final choice, update), RandomMCTSAgent and  *)
(* MCTSAgent (policy evaluation) and MCBSAgent (greedy descent and beam    *)
(* search in front of MCTS).                                               *)
(*                                                                         *)
(* The search tree is a function from node identities to node records.  A  *)
(* node's identity is the sequence of actions taken since the start of the *)
(* episode; its `path` field is what the program stores in node.path (the  *)
(* actions from the current root).  Rewards are integers, in units of      *)
(* 1/RewardUnit: the reward -0.5 is -1.                                    *)
(* MCTSNode (ginkgo_rl/utils/mcts.py) is modelled from the specification.  *)
(***************************************************************************)
EXTENDS Integers, Sequences, FiniteSets, TLC

VARIABLES
    agent,           \* class of the agent
    env,             \* the environment the agent was given (a jet)
    policy,          \* the actor network of MCTSAgent, as a family of priors
    n_mc_target, n_mc_min, n_mc_max, mcts_mode, c_puct,
    beam_size, reward_range,
    env_state,       \* internal state of self.env: the actions taken so far
    episode_reward,
    mcts_head,       \* identity of the root node
    tree,            \* identity -> node record
    pc,              \* position of the caller / of _predict
    err,             \* the exception that ended _predict, or "none"
    passes_left,     \* remaining iterations of `for i in range(n)`
    gnode,           \* `node` of _greedy
    beam,            \* `beam` of _beam_search: sequence of <<reward, node>>
    chosen, info,    \* result of _predict
    obs,             \* observations of the running decision (history)
    backups,         \* the completed backups of the episode (history)
    n_set_precision, \* number of set_precision and set_env calls so far
    bud              \* state of the budget loop on drawn inputs

vars == <<agent, env, policy, n_mc_target, n_mc_min, n_mc_max, mcts_mode,
          c_puct, beam_size, reward_range, env_state, episode_reward,
          mcts_head, tree, pc, err, passes_left, gnode, beam, chosen, info,
          obs, backups, n_set_precision, bud>>

config == <<n_mc_target, n_mc_min, n_mc_max, mcts_mode, c_puct>>

(***************************************************************************)
(* Bounds of the model.                                                    *)
(***************************************************************************)
MaxAction == 2
MaxSetPrecision == 1
MaxRootVisits == 6
MaxLegal == 3
MaxDepthCap == 2

Actions == 0..MaxAction

(* the number of model units in the reward 1.0 *)
RewardUnit == 2

(***************************************************************************)
(* Program constants.                                                      *)
(***************************************************************************)
MaxSteps == 1000
DefaultRewardMin == -200
DefaultRewardMax == 0
DefaultTarget == 5
DefaultMin == 5
DefaultMax == 100

Min2(a, b) == IF a < b THEN a ELSE b
Max2(a, b) == IF a > b THEN a ELSE b
Abs(x) == IF x < 0 THEN -x ELSE x
Last(s) == s[Len(s)]
Front(s) == SubSeq(s, 1, Len(s) - 1)
IsPrefix(p, s) == Len(p) <= Len(s) /\ SubSeq(s, 1, Len(p)) = p
Suffix(s, k) == SubSeq(s, k + 1, Len(s))

(***************************************************************************)
(* The environment collaborator: deterministic and replayable.  A state    *)
(* is the sequence of actions since reset.  Two jets are modelled.         *)
(*   "A": three legal actions with step rewards -1.0, -0.5, -2.0, then one *)
(*        forced action; the episode ends after two steps.                 *)
(*   "B": two legal actions per state, one branch ends after two steps,    *)
(*        the others after three.                                          *)
(*   "C": two legal actions; action 1 ends the episode, action 0 leads to  *)
(*        a state that is not terminal and has no legal action.            *)
(***************************************************************************)
Envs == {"A", "B", "C"}

EnvDone(e, s) ==
    IF e = "A" THEN Len(s) >= 2
    ELSE IF e = "C" THEN s = <<1>> \/ Len(s) >= 2
    ELSE s = <<1, 1>> \/ Len(s) >= 3

EnvLegal(e, s) ==
    IF EnvDone(e, s) THEN {}
    ELSE IF e = "A" THEN (IF s = <<>> THEN {0, 1, 2} ELSE {0})
    ELSE IF e = "C" THEN (IF s = <<>> THEN {0, 1} ELSE {})
    ELSE IF Len(s) = 2 /\ s[1] = 0 THEN {0}
    ELSE {0, 1}

EnvReward(e, s, a) ==
    IF e = "A" THEN
        CASE s = <<>>  -> (IF a = 0 THEN -2 ELSE IF a = 1 THEN -1 ELSE -4)
          [] s = <<0>> -> -1
          [] s = <<1>> -> -5
          [] OTHER     -> -1
    ELSE IF e = "C" THEN
        CASE s = <<>>  -> (IF a = 0 THEN -2 ELSE -1)
          [] OTHER     -> -1
    ELSE
        CASE s = <<>>     -> -1
          [] s = <<0>>    -> (IF a = 0 THEN -3 ELSE -1)
          [] s = <<1>>    -> (IF a = 0 THEN -1 ELSE -3)
          [] s = <<0, 0>> -> -4
          [] s = <<0, 1>> -> 0
          [] OTHER        -> -2

(***************************************************************************)
(* _parse_path: replay `path` from the real environment's state, summing   *)
(* the rewards and stopping at the first step that reports done.           *)
(***************************************************************************)
RECURSIVE FollowPath(_, _, _, _)
FollowPath(e, s, path, total) ==
    IF path = <<>> THEN [state |-> s, total_reward |-> total, terminal |-> FALSE]
    ELSE LET a  == Head(path)
             s2 == Append(s, a)
             r  == total + EnvReward(e, s, a)
         IN  IF EnvDone(e, s2)
             THEN [state |-> s2, total_reward |-> r, terminal |-> TRUE]
             ELSE FollowPath(e, s2, Tail(path), r)

ParsePath(e, s, path) == FollowPath(e, s, path, 0)

(* _find_legal_actions and _parse_action on the simulated environment *)
FindLegalActions(e, s) == EnvLegal(e, s)
ParseAction(e, s, a) == EnvReward(e, s, a)

(***************************************************************************)
(* MCTSNode                                                                *)
(***************************************************************************)
NewNode(path, q_step, rr) ==
    [path |-> path, n |-> 0, q |-> 0, q_max |-> rr[1], q_step |-> q_step,
     terminal |-> FALSE, in_beam |-> FALSE]

Children(t, k) == {a \in Actions : Append(k, a) \in DOMAIN t}

NodeLen(t, k) == Cardinality(Children(t, k))

(* expand: one child per action, created once *)
Expand(t, k, actions, rr, e, s) ==
    LET new == {Append(k, a) : a \in actions} \ DOMAIN t
    IN  [x \in DOMAIN t \cup new |->
            IF x \in DOMAIN t THEN t[x]
            ELSE NewNode(Append(t[k].path, Last(x)), ParseAction(e, s, Last(x)), rr)]

SetTerminal(t, k, b) == [t EXCEPT ![k].terminal = b]

HasParent(t, k) == k # <<>> /\ Front(k) \in DOMAIN t

(* give_reward: n += 1, q += reward, q_max raised; then the parent's *)
RECURSIVE GiveReward(_, _, _, _)
GiveReward(t, k, reward, backup) ==
    LET t1 == [t EXCEPT ![k].n = @ + 1, ![k].q = @ + reward,
                        ![k].q_max = Max2(@, reward)]
    IN  IF backup /\ HasParent(t, k)
        THEN CHOOSE r \in {GiveReward(v, Front(k), reward, backup) : v \in {t1}} :
                 TRUE
        ELSE t1

(* a prune that rebuilds the kept nodes: their step rewards are lost *)
PruneZeroSteps(t, k) ==
    [x \in {y \in DOMAIN t : IsPrefix(k, y)} |->
        [t[x] EXCEPT !.path = Suffix(x, Len(k)), !.q_step = 0]]

(* prune: the node becomes a root; paths are taken from the new root *)
Prune(t, k) ==
    [x \in {y \in DOMAIN t : IsPrefix(k, y)} |->
        [t[x] EXCEPT !.path = Suffix(x, Len(k))]]

(* children_q_steps: the step rewards of the children, in child order *)
RECURSIVE QStepsFrom(_, _, _)
QStepsFrom(t, k, i) ==
    IF i > MaxAction THEN <<>>
    ELSE (IF Append(k, i) \in DOMAIN t THEN <<t[Append(k, i)].q_step>> ELSE <<>>)
         \o QStepsFrom(t, k, i + 1)

ChildrenQSteps(t, k) == QStepsFrom(t, k, 0)

(***************************************************************************)
(* Selection rules of MCTSNode.  Children are scanned in ascending action  *)
(* id and a later child replaces the best one only when strictly better,   *)
(* which breaks ties by the lowest action id.                              *)
(***************************************************************************)
(* better[<<a, b>>]: child a is strictly better than child b; -1 is None *)
RECURSIVE ScanBest(_, _, _, _)
ScanBest(cs, i, best, better) ==
    IF i > MaxAction THEN best
    ELSE IF i \notin cs THEN ScanBest(cs, i + 1, best, better)
    ELSE IF best = -1 THEN ScanBest(cs, i + 1, i, better)
    ELSE IF better[<<i, best>>] THEN ScanBest(cs, i + 1, i, better)
    ELSE ScanBest(cs, i + 1, best, better)

(* X > Y * sqrt(N) for integers X, Y and N >= 0, without square roots *)
GreaterThanRoot(X, Y, N) ==
    IF Y >= 0 \/ N = 0
    THEN X > 0 /\ X * X > Y * Y * N
    ELSE X >= 0 \/ X * X < Y * Y * N

(* the aggregate of the backed-up returns alone, as a fraction num/den     *)
(* clamped into the reward range: a child without a backup counts as mean  *)
(* 0, or as its initial q_max                                              *)
AggregateOfReturns(node, mode, rr) ==
    LET raw == IF mode = "max" THEN [num |-> node.q_max, den |-> 1]
               ELSE IF node.n = 0 THEN [num |-> 0, den |-> 1]
               ELSE [num |-> node.q, den |-> node.n]
    IN  IF raw.num < rr[1] * raw.den THEN [num |-> rr[1], den |-> 1]
        ELSE IF raw.num > rr[2] * raw.den THEN [num |-> rr[2], den |-> 1]
        ELSE raw

(* the exploitation term of a child in the PUCT score, as a fraction       *)
(* num/den clamped into the reward range.  Its inputs are the child's n,   *)
(* q, q_max and q_step: the aggregate is the mean q/n or q_max, by mode,   *)
(* for a child that has been visited, and the child's immediate step       *)
(* reward while it has no visit (no return has been backed up through it,  *)
(* q/n is not defined and q_max is still the bound).                       *)
Aggregate(node, mode, rr) ==
    LET raw == IF node.n = 0 THEN [num |-> node.q_step, den |-> 1]
               ELSE IF mode = "max" THEN [num |-> node.q_max, den |-> 1]
               ELSE [num |-> node.q, den |-> node.n]
    IN  IF raw.num < rr[1] * raw.den THEN [num |-> rr[1], den |-> 1]
        ELSE IF raw.num > rr[2] * raw.den THEN [num |-> rr[2], den |-> 1]
        ELSE raw

(* score(a) > score(b), where                                              *)
(*   score(c) = aggregate(c) + c_puct * p(c) * sqrt(parent.n) / (1 + n(c)) *)
(* and p(c) = w[c] / W; the aggregates are in reward units, so the bonus   *)
(* is scaled by RewardUnit                                                 *)
PuctGreater(t, k, a, b, w, W, mode, c, rr) ==
    LET A  == Aggregate(t[Append(k, a)], mode, rr)
        B  == Aggregate(t[Append(k, b)], mode, rr)
        na == 1 + t[Append(k, a)].n
        nb == 1 + t[Append(k, b)].n
        \* aggregate(a) - aggregate(b) = Dn / Dd
        Dn == A.num * B.den - B.num * A.den
        Dd == A.den * B.den
        \* bonus(b) - bonus(a) = sqrt(N) * En / Ed
        En == RewardUnit * c * (w[b] * na - w[a] * nb)
        Ed == W * na * nb
    IN  GreaterThanRoot(Dn * Ed, En * Dd, t[k].n)

(* select_puct: the child of the highest score, the lowest action id      *)
(* among equal scores                                                      *)
SelectPuct(t, k, w, W, mode, c, rr) ==
    LET cs == Children(t, k)
        better == [p \in cs \X cs |->
                      PuctGreater(t, k, p[1], p[2], w, W, mode, c, rr)]
    IN  ScanBest(cs, 0, -1, better)

(* select_best: argmax of the aggregate (q_max for mode max) *)
SelectBest(t, k, mode) ==
    LET Agg(a) == LET nd == t[Append(k, a)]
                  IN  IF mode = "max" THEN [num |-> nd.q_max, den |-> 1]
                      ELSE IF nd.n = 0 THEN [num |-> 0, den |-> 1]
                      ELSE [num |-> nd.q, den |-> nd.n]
        cs == Children(t, k)
        better == [p \in cs \X cs |->
                      Agg(p[1]).num * Agg(p[2]).den > Agg(p[2]).num * Agg(p[1]).den]
    IN  ScanBest(cs, 0, -1, better)

(* select_greedy: the child with the highest immediate step reward *)
SelectGreedy(t, k) ==
    LET cs == Children(t, k)
        better == [p \in cs \X cs |->
                      t[Append(k, p[1])].q_step > t[Append(k, p[2])].q_step]
    IN  ScanBest(cs, 0, -1, better)

(* count_beam_children: the children already processed by beam search *)
CountBeamChildren(t, k) ==
    Cardinality({a \in Children(t, k) : t[Append(k, a)].in_beam})

(* select_beam_search: up to beam_size children not yet beam-tagged, by    *)
(* step reward (highest first), then by action id (lowest first)           *)
RECURSIVE TakeBest(_, _, _, _)
TakeBest(t, k, cs, count) ==
    IF count <= 0 \/ cs = {} THEN <<>>
    ELSE LET better == [p \in cs \X cs |->
                           t[Append(k, p[1])].q_step > t[Append(k, p[2])].q_step]
             a == ScanBest(cs, 0, -1, better)
         IN  <<a>> \o TakeBest(t, k, cs \ {a}, count - 1)

SelectBeamSearch(t, k, size, exclude_beam_tagged) ==
    TakeBest(t, k,
             {a \in Children(t, k) :
                 ~(exclude_beam_tagged /\ t[Append(k, a)].in_beam)},
             size)

(***************************************************************************)
(* _evaluate_policy.  The result is a record: the exception raised (or     *)
(* "none"), whether None was returned, and the probabilities as weights    *)
(* w[a] over a total W.  The argument step_rewards is a record: whether    *)
(* the caller passes the keyword, and the sequence passed; `action` is -1  *)
(* for None.                                                               *)
(***************************************************************************)
Agents == {"RandomMCTSAgent", "MCTSAgent", "MCBSAgent"}
Policies == {"uniform", "high"}

PolicyWeight(pol, a) ==
    IF pol = "uniform" THEN 1 ELSE a + 1

RECURSIVE SumWeights(_, _)
SumWeights(w, S) ==
    IF S = {} THEN 0
    ELSE LET a == CHOOSE x \in S : TRUE IN w[a] + SumWeights(w, S \ {a})

(* step_rewards=None (the keyword is not passed) and step_rewards=q *)
NoStepRewards == [given |-> FALSE, q |-> <<>>]
StepRewards(q) == [given |-> TRUE, q |-> q]

(* RandomMCTSAgent._evaluate_policy(state, legal_actions, action=None): a  *)
(* call with the keyword step_rewards does not bind; both branches divide  *)
(* by len(legal_actions); the branch for a given action returns nothing    *)
RandomEvaluatePolicy(legal, kw_step_rewards, action) ==
    LET w == [a \in legal |-> 1]
    IN  IF kw_step_rewards
        THEN [error |-> "TypeError", none |-> FALSE, w |-> w, W |-> 0]
        ELSE IF legal = {}
        THEN [error |-> "ZeroDivisionError", none |-> FALSE, w |-> w, W |-> 0]
        ELSE IF action # -1
        THEN [error |-> "none", none |-> TRUE, w |-> w, W |-> 0]
        ELSE [error |-> "none", none |-> FALSE, w |-> w, W |-> Cardinality(legal)]

(* the legal actions that get a row in _batch_state: zip(legal_actions,    *)
(* step_rewards) stops at the shorter of the two                           *)
BatchActions(legal, step_rewards) ==
    IF ~step_rewards.given THEN legal
    ELSE {a \in legal :
             Cardinality({b \in legal : b < a}) < Len(step_rewards.q)}

(* MCTSAgent._evaluate_policy(state, legal_actions, step_rewards, action):  *)
(* _batch_state concatenates the rows and fails when there is none; the    *)
(* softmax runs over the rows; with action None the whole vector is        *)
(* returned, else the entry at the action's index in legal_actions         *)
ActorEvaluatePolicy(pol, legal, step_rewards, action) ==
    LET rows == BatchActions(legal, step_rewards)
        w == [a \in rows |-> PolicyWeight(pol, a)]
    IN  IF rows = {}
        THEN [error |-> "RuntimeError", none |-> FALSE, w |-> w, W |-> 0]
        ELSE IF action # -1 /\ action \notin legal
        THEN [error |-> "AssertionError", none |-> FALSE, w |-> w, W |-> 0]
        ELSE IF action # -1 /\ action \notin rows
        THEN [error |-> "IndexError", none |-> FALSE, w |-> w, W |-> 0]
        ELSE [error |-> "none", none |-> FALSE, w |-> w, W |-> SumWeights(w, rows)]

EvaluatePolicy(ag, pol, legal, step_rewards, action) ==
    IF ag = "RandomMCTSAgent"
    THEN RandomEvaluatePolicy(legal, step_rewards.given, action)
    ELSE ActorEvaluatePolicy(pol, legal, step_rewards, action)

(***************************************************************************)
(* BaseMCTSAgent._mcts: the budget, one simulation pass, the final choice. *)
(***************************************************************************)
(* the budget without the floor at n_mc_min *)
NumPassesNoFloor(n_children, n_legal, root_n, target, lo, hi) ==
    IF n_children = 1 THEN 1
    ELSE Min2(target * n_legal - root_n, hi)

(* the budget without the single-child short-circuit *)
NumPassesNoShortcut(n_children, n_legal, root_n, target, lo, hi) ==
    Min2(Max2(target * n_legal - root_n, lo), hi)

(* n of _mcts; range(n) runs no pass when n <= 0 *)
NumPasses(n_children, n_legal, root_n, target, lo, hi) ==
    IF n_children = 1 THEN 1
    ELSE Min2(Max2(target * n_legal - root_n, lo), hi)

RangeLen(n) == IF n < 0 THEN 0 ELSE n

(* the value of a backup without the episode reward so far *)
BackupValueNoEpisode(ep, total) == total

(* node.give_reward(self.episode_reward + total_reward, backup=True) *)
BackupValue(ep, total) == ep + total

(* a backup that stops at the node it starts from *)
BackupNoPropagate(t, node, ep, total) ==
    GiveReward(t, node, BackupValue(ep, total), FALSE)

(* a backup that starts at the parent of the node *)
BackupFromParent(t, node, ep, total) ==
    IF HasParent(t, node)
    THEN GiveReward(t, Front(node), BackupValue(ep, total), TRUE)
    ELSE t

Backup(t, node, ep, total) == GiveReward(t, node, BackupValue(ep, total), TRUE)

LogBackup(log, node, root, value) ==
    Append(log, [node |-> node, root |-> root, value |-> value])

(* the expansion step shared by the three strategies *)
ExpandNode(t, node, e, state, rr) ==
    Expand(t, node, FindLegalActions(e, state), rr, e, state)

(* policy evaluation and PUCT selection at `node` during a pass *)
PassPolicy(ag, pol, t, node) ==
    EvaluatePolicy(ag, pol, Children(t, node),
                   StepRewards(ChildrenQSteps(t, node)), -1)

PassSelect(t, node, probs, mode, c, rr) ==
    SelectPuct(t, node, probs.w, probs.W, mode, c, rr)

(* the inner loop `for _ in range(max_steps)` from `node` on; at a node    *)
(* expanded to no child the policy evaluation raises, so the selection     *)
(* always has a child to select                                            *)
RECURSIVE Descend(_, _, _, _, _)
Descend(t, node, steps, total, cx) ==
    IF steps = 0
    THEN [tree |-> t, node |-> node, total_reward |-> total, error |-> "none"]
    ELSE
      LET parsed == ParsePath(cx.env, cx.env_state, t[node].path)
          t1     == SetTerminal(t, node, parsed.terminal)
      IN  IF parsed.terminal
          THEN [tree |-> t1, node |-> node,
                total_reward |-> parsed.total_reward, error |-> "none"]
          ELSE
            LET t2 == IF Children(t1, node) = {}
                      THEN ExpandNode(t1, node, cx.env, parsed.state, cx.rr)
                      ELSE t1
                probs == PassPolicy(cx.agent, cx.policy, t2, node)
            IN  IF probs.error # "none"
                THEN [tree |-> t2, node |-> node,
                      total_reward |-> parsed.total_reward, error |-> probs.error]
                ELSE Descend(t2,
                             Append(node, PassSelect(t2, node, probs, cx.mode,
                                                     cx.c_puct, cx.rr)),
                             steps - 1, parsed.total_reward, cx)

Context ==
    [env |-> env, env_state |-> env_state, rr |-> reward_range,
     agent |-> agent, policy |-> policy, mode |-> mcts_mode, c_puct |-> c_puct]

(* the final choice made with the configured aggregation mode *)
BestActionByMode(t, head, mode) == SelectBest(t, head, mode)

(* select_best(mode="max") at the root *)
BestAction(t, head, mode) == SelectBest(t, head, "max")

(***************************************************************************)
(* MCBSAgent._beam_search: one round of the while loop.                    *)
(***************************************************************************)
(* beam entries are <<reward, node>> *)
RECURSIVE InsertSorted(_, _)
InsertSorted(sorted, x) ==
    IF sorted = <<>> THEN <<x>>
    ELSE IF Head(sorted)[1] >= x[1]
    THEN <<Head(sorted)>> \o InsertSorted(Tail(sorted), x)
    ELSE <<x>> \o sorted

(* sorted(next_beam, key=lambda x: x[0], reverse=True): stable *)
RECURSIVE SortedByReward(_)
SortedByReward(b) ==
    IF b = <<>> THEN <<>>
    ELSE InsertSorted(SortedByReward(Front(b)), Last(b))

(* seq[:k] *)
Slice(seq, k) ==
    IF k >= 0 THEN SubSeq(seq, 1, Min2(k, Len(seq)))
    ELSE SubSeq(seq, 1, Max2(Len(seq) + k, 0))

(* the truncation after an ascending sort (reverse=True forgotten) *)
KeepTopAscending(next_beam, size) ==
    LET sorted == SortedByReward(next_beam)
    IN  Slice([i \in 1..Len(sorted) |-> sorted[Len(sorted) + 1 - i]], size)

KeepTop(next_beam, size) == Slice(SortedByReward(next_beam), size)

(* the second half of the body of the loop over the beam, on the tree t3   *)
(* left by the first half: the skip test, the selection and the marker     *)
BeamSelect(st, node, size, total_reward, t3, log) ==
    LET acts == SelectBeamSearch(t3, node, size, TRUE)
        pushed == [i \in 1..Len(acts) |->
                     <<total_reward + t3[Append(node, acts[i])].q_step,
                       Append(node, acts[i])>>]
    IN  IF CountBeamChildren(t3, node) >= Min2(size, NodeLen(t3, node))
        THEN [tree |-> t3, next_beam |-> st.next_beam, backups |-> log,
              seen |-> Append(st.seen, node)]
        ELSE [tree |-> [t3 EXCEPT ![node].in_beam = TRUE],
              next_beam |-> st.next_beam \o pushed, backups |-> log,
              seen |-> Append(st.seen, node)]

(* the body of `for i, (_, node) in enumerate(beam)` for one entry: replay, *)
(* expansion and backup, then the second half                              *)
BeamVisit(st, node, size, cx, ep, head) ==
    LET parsed == ParsePath(cx.env, cx.env_state, st.tree[node].path)
        t1 == SetTerminal(st.tree, node, parsed.terminal)
        t2 == IF ~t1[node].terminal /\ Children(t1, node) = {}
              THEN ExpandNode(t1, node, cx.env, parsed.state, cx.rr)
              ELSE t1
        t3 == IF t2[node].terminal
              THEN Backup(t2, node, ep, parsed.total_reward)
              ELSE t2
        log == IF t2[node].terminal
               THEN LogBackup(st.backups, node, head,
                              BackupValue(ep, parsed.total_reward))
               ELSE st.backups
    IN  CHOOSE r \in {BeamSelect(st, node, size, parsed.total_reward, t, log) :
                         t \in {t3}} : TRUE

(* a loop that processes only the last entry of the beam *)
BeamLoopLastOnly(st, b, i, size, cx, ep, head) ==
    IF b = <<>> THEN st
    ELSE BeamVisit(st, b[Len(b)][2], size, cx, ep, head)

RECURSIVE BeamLoop(_, _, _, _, _, _, _)
BeamLoop(st, b, i, size, cx, ep, head) ==
    IF i > Len(b) THEN st
    ELSE CHOOSE r \in {BeamLoop(v, b, i + 1, size, cx, ep, head) :
                          v \in {BeamVisit(st, b[i][2], size, cx, ep, head)}} :
             TRUE

(***************************************************************************)
(* The agent as a state machine.  pc is "idle" between decisions, then     *)
(* follows _predict ("greedy", "beam", "mcts"), "decided" once _predict    *)
(* has returned and "error" once it has raised.                            *)
(***************************************************************************)
Targets == {1, 2}
Minima == {0, 1, 3}
Maxima == {0, 3}
Modes == {"mean", "max"}
CPucts == {1, 2}
BeamSizes == {1, 2}
DefaultRewardRange ==
    <<RewardUnit * DefaultRewardMin, RewardUnit * DefaultRewardMax>>
RewardRanges == {DefaultRewardRange, <<-4, 0>>}

(* origin is the state of the environment when the episode was             *)
(* initialised (_init_episode), kept from decision to decision             *)
ObsInit ==
    [n |-> 0, root_n |-> 0, n_children |-> 0, n_legal |-> 0, passes |-> 0,
     rounds |-> 0, beam_seen |-> <<>>, beam_pushed |-> <<>>, start |-> 0,
     origin |-> <<>>]

(* a decision starts: the backups made so far are noted *)
ObsStart(log) == [ObsInit EXCEPT !.start = Len(log), !.origin = obs.origin]

BudInit == [phase |-> "off"]

(* _init_episode: a fresh root, no reward so far *)
InitTree(rr) == [k \in {<<>>} |-> NewNode(<<>>, 0, rr)]

(* the fresh root when the environment is in state s *)
InitTreeAt(s, rr) == [k \in {s} |-> NewNode(<<>>, 0, rr)]

(* the states an environment handed to set_env may be in: reset, or one    *)
(* step into an episode that has not ended                                 *)
EnvStates(e) ==
    {<<>>} \cup {<<a>> : a \in {b \in EnvLegal(e, <<>>) : ~EnvDone(e, <<b>>)}}

Init ==
    /\ agent \in Agents
    /\ env \in Envs
    /\ policy \in (IF agent = "RandomMCTSAgent" THEN {"uniform"} ELSE Policies)
    /\ n_mc_target \in Targets
    /\ n_mc_min \in Minima
    /\ n_mc_max \in Maxima
    /\ mcts_mode \in Modes
    /\ c_puct \in CPucts
    /\ beam_size \in (IF agent = "MCBSAgent" THEN BeamSizes ELSE {0})
    /\ reward_range \in RewardRanges
    /\ env_state = <<>>
    /\ episode_reward = 0
    /\ mcts_head = <<>>
    /\ tree = InitTree(reward_range)
    /\ pc = "idle"
    /\ err = "none"
    /\ passes_left = 0
    /\ gnode = <<>>
    /\ beam = <<>>
    /\ chosen = -1
    /\ info = <<>>
    /\ obs = ObsInit
    /\ backups = <<>>
    /\ n_set_precision = 0
    /\ bud = BudInit

(* set_precision *)
SetPrecision(target, lo, hi, mode, c) ==
    /\ pc = "idle"
    /\ n_set_precision < MaxSetPrecision
    /\ <<target, lo, hi, mode, c>> # config
    /\ n_mc_target' = target
    /\ n_mc_min' = lo
    /\ n_mc_max' = hi
    /\ mcts_mode' = mode
    /\ c_puct' = c
    /\ n_set_precision' = n_set_precision + 1
    /\ UNCHANGED <<agent, env, policy, beam_size, reward_range, env_state,
                   episode_reward, mcts_head, tree, pc, err, passes_left,
                   gnode, beam, chosen, info, obs, backups, bud>>

(* set_env: the agent is given another environment, in any state, and     *)
(* starts an episode there; what the last decision left behind (its        *)
(* result and the observations of it) is void                              *)
SetEnv(e, s) ==
    /\ pc = "idle"
    /\ n_set_precision < MaxSetPrecision
    /\ n_set_precision' = n_set_precision + 1
    /\ env' = e
    /\ env_state' = s
    /\ mcts_head' = s
    /\ tree' = InitTreeAt(s, reward_range)
    /\ episode_reward' = 0
    /\ backups' = <<>>
    /\ obs' = [ObsInit EXCEPT !.origin = s]
    /\ gnode' = s
    /\ chosen' = -1
    /\ info' = <<>>
    /\ UNCHANGED <<agent, policy, n_mc_target, n_mc_min, n_mc_max, mcts_mode,
                   c_puct, beam_size, reward_range, pc, err, passes_left,
                   beam, bud>>

(* entry of _mcts on tree t: the budget *)
EnterMcts(t, o) ==
    LET n_children == NodeLen(t, mcts_head)
        n_legal == Cardinality(FindLegalActions(env, env_state))
        n == NumPasses(n_children, n_legal, t[mcts_head].n,
                       n_mc_target, n_mc_min, n_mc_max)
    IN  /\ pc' = "mcts"
        /\ passes_left' = RangeLen(n)
        /\ obs' = [o EXCEPT !.n = n, !.root_n = t[mcts_head].n,
                            !.n_children = n_children, !.n_legal = n_legal,
                            !.passes = 0]

(* BaseMCTSAgent._predict *)
PredictMcts ==
    /\ pc = "idle"
    /\ agent # "MCBSAgent"
    /\ EnterMcts(tree, ObsStart(backups))
    /\ UNCHANGED <<agent, env, policy, n_mc_target, n_mc_min, n_mc_max,
                   mcts_mode, c_puct, beam_size, reward_range, env_state,
                   episode_reward, mcts_head, tree, err, gnode, beam, chosen,
                   info, backups, n_set_precision, bud>>

(* MCBSAgent._predict: greedy first *)
PredictMcbs ==
    /\ pc = "idle"
    /\ agent = "MCBSAgent"
    /\ pc' = "greedy"
    /\ gnode' = mcts_head
    /\ obs' = ObsStart(backups)
    /\ UNCHANGED <<agent, env, policy, n_mc_target, n_mc_min, n_mc_max,
                   mcts_mode, c_puct, beam_size, reward_range, env_state,
                   episode_reward, mcts_head, tree, err, passes_left, beam,
                   chosen, info, backups, n_set_precision, bud>>

(* action = node.select_greedy(); node = node.children[action] *)
GreedyNext(t, node) == Append(node, SelectGreedy(t, node))

(* one iteration of `while not node.terminal` of _greedy *)
GreedyStep ==
    /\ pc = "greedy"
    /\ ~tree[gnode].terminal
    /\ LET parsed == ParsePath(env, env_state, tree[gnode].path)
           t1 == SetTerminal(tree, gnode, parsed.terminal)
           t2 == IF ~t1[gnode].terminal /\ Children(t1, gnode) = {}
                 THEN ExpandNode(t1, gnode, env, parsed.state, reward_range)
                 ELSE t1
           t3 == IF t2[gnode].terminal
                 THEN Backup(t2, gnode, episode_reward, parsed.total_reward)
                 ELSE t2
       IN  /\ tree' = t3
           /\ backups' = IF t2[gnode].terminal
                         THEN LogBackup(backups, gnode, mcts_head,
                                  BackupValue(episode_reward, parsed.total_reward))
                         ELSE backups
           /\ obs' = obs
           /\ IF t3[gnode].terminal
              THEN /\ gnode' = gnode
                   /\ UNCHANGED <<pc, err>>
              ELSE IF Children(t3, gnode) = {}
              THEN /\ pc' = "error"
                   /\ err' = "NoChildren"
                   /\ gnode' = gnode
              ELSE /\ gnode' = GreedyNext(t3, gnode)
                   /\ UNCHANGED <<pc, err>>
    /\ UNCHANGED <<agent, env, policy, n_mc_target, n_mc_min, n_mc_max,
                   mcts_mode, c_puct, beam_size, reward_range, env_state,
                   episode_reward, mcts_head, passes_left, beam, chosen, info,
                   n_set_precision, bud>>

(* _greedy returns; _beam_search starts with the root on the beam *)
GreedyExit ==
    /\ pc = "greedy"
    /\ tree[gnode].terminal
    /\ pc' = "beam"
    /\ beam' = << <<episode_reward, mcts_head>> >>
    /\ UNCHANGED <<agent, env, policy, n_mc_target, n_mc_min, n_mc_max,
                   mcts_mode, c_puct, beam_size, reward_range, env_state,
                   episode_reward, mcts_head, tree, err, passes_left, gnode,
                   chosen, info, obs, backups, n_set_precision, bud>>

(* one iteration of `while beam or next_beam` *)
BeamRound ==
    /\ pc = "beam"
    /\ beam # <<>>
    /\ \E st \in {BeamLoop([tree |-> tree, next_beam |-> <<>>,
                              backups |-> backups, seen |-> obs.beam_seen],
                             beam, 1, beam_size, Context, episode_reward,
                             mcts_head)} :
           /\ tree' = st.tree
           /\ backups' = st.backups
           /\ beam' = KeepTop(st.next_beam, beam_size)
           /\ obs' = [obs EXCEPT !.rounds = @ + 1, !.beam_seen = st.seen,
                                 !.beam_pushed = st.next_beam]
    /\ UNCHANGED <<agent, env, policy, n_mc_target, n_mc_min, n_mc_max,
                   mcts_mode, c_puct, beam_size, reward_range, env_state,
                   episode_reward, mcts_head, pc, err, passes_left, gnode,
                   chosen, info, n_set_precision, bud>>

(* _beam_search returns; _mcts starts *)
BeamExit ==
    /\ pc = "beam"
    /\ beam = <<>>
    /\ EnterMcts(tree, obs)
    /\ UNCHANGED <<agent, env, policy, n_mc_target, n_mc_min, n_mc_max,
                   mcts_mode, c_puct, beam_size, reward_range, env_state,
                   episode_reward, mcts_head, tree, err, gnode, beam, chosen,
                   info, backups, n_set_precision, bud>>

(* one iteration of `for i in range(n)` of _mcts(state, max_steps) *)
PassWith(max_steps) ==
    /\ pc = "mcts"
    /\ passes_left > 0
    /\ LET r == Descend(tree, mcts_head, max_steps, 0, Context)
       IN  IF r.error # "none"
           THEN /\ tree' = r.tree
                /\ pc' = "error"
                /\ err' = r.error
                /\ UNCHANGED <<passes_left, obs, backups>>
           ELSE /\ tree' = Backup(r.tree, r.node, episode_reward, r.total_reward)
                /\ backups' = LogBackup(backups, r.node, mcts_head,
                                  BackupValue(episode_reward, r.total_reward))
                /\ passes_left' = passes_left - 1
                /\ obs' = [obs EXCEPT !.passes = @ + 1]
                /\ UNCHANGED <<pc, err>>
    /\ UNCHANGED <<agent, env, policy, n_mc_target, n_mc_min, n_mc_max,
                   mcts_mode, c_puct, beam_size, reward_range, env_state,
                   episode_reward, mcts_head, gnode, beam, chosen, info,
                   n_set_precision, bud>>

(* _predict calls _mcts(state): max_steps has its default *)
MctsPass == PassWith(MaxSteps)

(* after the passes: the best action and its log-probability.  A root      *)
(* without children has no best action (None, -1) and no step rewards:     *)
(* the policy evaluation then has no row to evaluate and raises            *)
MctsFinish ==
    /\ pc = "mcts"
    /\ passes_left = 0
    /\ LET action == BestAction(tree, mcts_head, mcts_mode)
           legal == FindLegalActions(env, env_state)
           prob == EvaluatePolicy(agent, policy, legal,
                       StepRewards(ChildrenQSteps(tree, mcts_head)), action)
       IN  IF prob.error # "none"
           THEN /\ pc' = "error"
                /\ err' = prob.error
                /\ UNCHANGED <<chosen, info>>
           ELSE IF prob.none
           THEN /\ pc' = "error"
                /\ err' = "TypeError"
                /\ UNCHANGED <<chosen, info>>
           ELSE /\ pc' = "decided"
                /\ chosen' = action
                /\ info' = <<prob.w[action], prob.W>>
                /\ err' = err
    /\ UNCHANGED <<agent, env, policy, n_mc_target, n_mc_min, n_mc_max,
                   mcts_mode, c_puct, beam_size, reward_range, env_state,
                   episode_reward, mcts_head, tree, passes_left, gnode, beam,
                   obs, backups, n_set_precision, bud>>

(* re-rooting at the first child instead of the action taken *)
AdvanceHeadFirst(head, action) == Append(head, 0)

(* the child the tree is re-rooted at *)
AdvanceHead(head, action) == Append(head, action)

(* update, after the environment has taken the chosen action; at the end   *)
(* of an episode the caller resets the environment (a new jet) and         *)
(* training may have changed the actor                                     *)
Update ==
    /\ pc = "decided"
    /\ LET next_reward == EnvReward(env, env_state, chosen)
           done == EnvDone(env, Append(env_state, chosen))
       IN  IF done
           THEN /\ tree' = InitTree(reward_range)
                /\ mcts_head' = <<>>
                /\ episode_reward' = 0
                /\ env_state' = <<>>
                /\ env' \in Envs
                /\ policy' \in (IF agent = "RandomMCTSAgent" THEN {"uniform"}
                                ELSE Policies)
                /\ backups' = <<>>
                /\ obs' = [obs EXCEPT !.origin = <<>>]
           ELSE /\ mcts_head' = AdvanceHead(mcts_head, chosen)
                /\ tree' = Prune(tree, AdvanceHead(mcts_head, chosen))
                /\ episode_reward' = episode_reward + next_reward
                /\ env_state' = Append(env_state, chosen)
                /\ UNCHANGED <<env, policy, backups, obs>>
    /\ pc' = "idle"
    /\ UNCHANGED <<agent, n_mc_target, n_mc_min, n_mc_max, mcts_mode, c_puct,
                   beam_size, reward_range, err, passes_left, gnode, beam,
                   chosen, info, n_set_precision, bud>>

Next ==
    \/ \E t \in Targets, lo \in Minima, hi \in Maxima, m \in Modes, c \in CPucts :
          SetPrecision(t, lo, hi, m, c)
    \/ \E e \in Envs : \E s \in EnvStates(e) : SetEnv(e, s)
    \/ PredictMcts
    \/ PredictMcbs
    \/ GreedyStep
    \/ GreedyExit
    \/ BeamRound
    \/ BeamExit
    \/ MctsPass
    \/ MctsFinish
    \/ Update

Spec == Init /\ [][Next]_vars

(* _greedy runs to completion once started: its loop is not suspended *)
FairSpec == Spec /\ WF_vars(GreedyStep) /\ WF_vars(GreedyExit)

(* so does _beam_search *)
FairBeamSpec == Spec /\ WF_vars(BeamRound) /\ WF_vars(BeamExit)

(***************************************************************************)
(* The budget and the pass loop of _mcts on drawn inputs: the precision    *)
(* parameters, the number of legal actions, whether the root is expanded   *)
(* and the visits recorded at the root.  Each pass backs up through the    *)
(* root once.                                                              *)
(***************************************************************************)
BudgetTargets == {1, 2, DefaultTarget}
BudgetMinima == {0, 1, 2, DefaultMin}
BudgetMaxima == {0, 1, 2, 5, DefaultMax}

InitBudget ==
    /\ agent = "MCTSAgent"
    /\ env = "A"
    /\ policy = "uniform"
    /\ n_mc_target \in BudgetTargets
    /\ n_mc_min \in BudgetMinima
    /\ n_mc_max \in BudgetMaxima
    /\ mcts_mode = "mean"
    /\ c_puct = 1
    /\ beam_size = 0
    /\ reward_range = DefaultRewardRange
    /\ env_state = <<>>
    /\ episode_reward = 0
    /\ mcts_head = <<>>
    /\ tree = InitTree(reward_range)
    /\ pc = "budget"
    /\ err = "none"
    /\ passes_left = 0
    /\ gnode = <<>>
    /\ beam = <<>>
    /\ chosen = -1
    /\ info = <<>>
    /\ obs = ObsInit
    /\ backups = <<>>
    /\ n_set_precision = 0
    /\ \E n_legal \in 0..MaxLegal, expanded \in BOOLEAN, root_n \in 0..MaxRootVisits :
          /\ expanded \/ root_n = 0
          /\ bud = [phase |-> "start", n_legal |-> n_legal,
                    n_children |-> IF expanded THEN n_legal ELSE 0,
                    root_n0 |-> root_n, root_n |-> root_n, n |-> 0, passes |-> 0]

BudgetFrame ==
    UNCHANGED <<agent, env, policy, n_mc_target, n_mc_min, n_mc_max, mcts_mode,
                c_puct, beam_size, reward_range, env_state, episode_reward,
                mcts_head, tree, pc, err, passes_left, gnode, beam, chosen,
                info, obs, backups, n_set_precision>>

BudgetEnter ==
    /\ pc = "budget"
    /\ bud.phase = "start"
    /\ bud' = [bud EXCEPT !.phase = "loop",
                  !.n = NumPasses(bud.n_children, bud.n_legal, bud.root_n,
                                  n_mc_target, n_mc_min, n_mc_max)]
    /\ BudgetFrame

(* a pass at a root that has a legal action completes and backs up *)
BudgetPass ==
    /\ pc = "budget"
    /\ bud.phase = "loop"
    /\ bud.passes < RangeLen(bud.n)
    /\ bud.n_legal > 0
    /\ bud' = [bud EXCEPT !.passes = @ + 1, !.root_n = @ + 1]
    /\ BudgetFrame

(* a pass at a root without a legal action: the root has no child and the  *)
(* policy evaluation raises before the backup                              *)
BudgetRaise ==
    /\ pc = "budget"
    /\ bud.phase = "loop"
    /\ bud.passes < RangeLen(bud.n)
    /\ bud.n_legal = 0
    /\ bud' = [bud EXCEPT !.phase = "raised"]
    /\ pc' = "error"
    /\ err' = EvaluatePolicy(agent, policy, {}, StepRewards(<<>>), -1).error
    /\ UNCHANGED <<agent, env, policy, n_mc_target, n_mc_min, n_mc_max,
                   mcts_mode, c_puct, beam_size, reward_range, env_state,
                   episode_reward, mcts_head, tree, passes_left, gnode, beam,
                   chosen, info, obs, backups, n_set_precision>>

(* the root has a child after the loop: it had one before, or a pass ran *)
BudgetRootExpanded == bud.n_children > 0 \/ bud.passes > 0

(* the loop is over and the choice and its log-probability are returned *)
BudgetExit ==
    /\ pc = "budget"
    /\ bud.phase = "loop"
    /\ bud.passes = RangeLen(bud.n)
    /\ BudgetRootExpanded
    /\ bud' = [bud EXCEPT !.phase = "done"]
    /\ BudgetFrame

(* the loop is over at a root without children: no best action, no step    *)
(* rewards, and the policy evaluation of the final choice raises           *)
BudgetExitRaise ==
    /\ pc = "budget"
    /\ bud.phase = "loop"
    /\ bud.passes = RangeLen(bud.n)
    /\ ~BudgetRootExpanded
    /\ bud' = [bud EXCEPT !.phase = "raised"]
    /\ pc' = "error"
    /\ err' = EvaluatePolicy(agent, policy, 0..(bud.n_legal - 1),
                             StepRewards(<<>>), -1).error
    /\ UNCHANGED <<agent, env, policy, n_mc_target, n_mc_min, n_mc_max,
                   mcts_mode, c_puct, beam_size, reward_range, env_state,
                   episode_reward, mcts_head, tree, passes_left, gnode, beam,
                   chosen, info, obs, backups, n_set_precision>>

NextBudget ==
    BudgetEnter \/ BudgetPass \/ BudgetRaise \/ BudgetExit \/ BudgetExitRaise

SpecBudget == InitBudget /\ [][NextBudget]_vars

(***************************************************************************)
(* _mcts(state, max_steps) called with a drawn depth cap: the passes, the  *)
(* final choice and update, for an MCTSAgent.                              *)
(***************************************************************************)
InitCap ==
    /\ agent = "MCTSAgent"
    /\ env \in Envs
    /\ policy \in Policies
    /\ n_mc_target \in Targets
    /\ n_mc_min \in Minima
    /\ n_mc_max \in Maxima
    /\ mcts_mode \in Modes
    /\ c_puct \in CPucts
    /\ beam_size = 0
    /\ reward_range \in RewardRanges
    /\ env_state = <<>>
    /\ episode_reward = 0
    /\ mcts_head = <<>>
    /\ tree = InitTree(reward_range)
    /\ pc = "idle"
    /\ err = "none"
    /\ passes_left = 0
    /\ gnode = <<>>
    /\ beam = <<>>
    /\ chosen = -1
    /\ info = <<>>
    /\ obs = ObsInit
    /\ backups = <<>>
    /\ n_set_precision = 0
    /\ \E m \in 1..MaxDepthCap : bud = [phase |-> "cap", max_steps |-> m]

CapPass == bud.phase = "cap" /\ PassWith(bud.max_steps)

NextCap == PredictMcts \/ CapPass \/ MctsFinish \/ Update

SpecCap == InitCap /\ [][NextCap]_vars

(***************************************************************************)
(* _beam_search(state, beam_size) called a second time from the same root, *)
(* by an MCBSAgent whose decision otherwise runs as in _predict.  bud      *)
(* notes the tree and the backups at the start of the second run.          *)
(***************************************************************************)
InitTwice ==
    /\ agent = "MCBSAgent"
    /\ env \in Envs
    /\ policy \in Policies
    /\ n_mc_target \in Targets
    /\ n_mc_min \in Minima
    /\ n_mc_max \in Maxima
    /\ mcts_mode \in Modes
    /\ c_puct \in CPucts
    /\ beam_size \in BeamSizes
    /\ reward_range \in RewardRanges
    /\ env_state = <<>>
    /\ episode_reward = 0
    /\ mcts_head = <<>>
    /\ tree = InitTree(reward_range)
    /\ pc = "idle"
    /\ err = "none"
    /\ passes_left = 0
    /\ gnode = <<>>
    /\ beam = <<>>
    /\ chosen = -1
    /\ info = <<>>
    /\ obs = ObsInit
    /\ backups = <<>>
    /\ n_set_precision = 0
    /\ bud = [phase |-> "twice", runs |-> 0, snap |-> tree, log |-> 0]

(* the decision starts with _greedy, as in MCBSAgent._predict *)
TwicePredict ==
    /\ pc = "idle"
    /\ bud.phase = "twice"
    /\ pc' = "greedy"
    /\ gnode' = mcts_head
    /\ obs' = ObsStart(backups)
    /\ bud' = [phase |-> "twice", runs |-> 0, snap |-> InitTree(reward_range),
               log |-> 0]
    /\ UNCHANGED <<agent, env, policy, n_mc_target, n_mc_min, n_mc_max,
                   mcts_mode, c_puct, beam_size, reward_range, env_state,
                   episode_reward, mcts_head, tree, err, passes_left, beam,
                   chosen, info, backups, n_set_precision>>

(* the first run of _beam_search has returned; it is called again *)
BeamAgain ==
    /\ pc = "beam"
    /\ beam = <<>>
    /\ bud.phase = "twice"
    /\ bud.runs = 0
    /\ beam' = << <<episode_reward, mcts_head>> >>
    /\ bud' = [bud EXCEPT !.runs = 1, !.snap = tree, !.log = Len(backups)]
    /\ UNCHANGED <<agent, env, policy, n_mc_target, n_mc_min, n_mc_max,
                   mcts_mode, c_puct, beam_size, reward_range, env_state,
                   episode_reward, mcts_head, tree, pc, err, passes_left,
                   gnode, chosen, info, obs, backups, n_set_precision>>

NextTwice ==
    \/ TwicePredict
    \/ GreedyStep
    \/ GreedyExit
    \/ BeamRound
    \/ BeamAgain
    \/ BeamExit
    \/ MctsPass
    \/ MctsFinish
    \/ Update

SpecBeamTwice == InitTwice /\ [][NextTwice]_vars

(***************************************************************************)
(* Properties.                                                             *)
(***************************************************************************)
Clamp(x, lo, hi) == IF x < lo THEN lo ELSE IF x > hi THEN hi ELSE x

(* C1: when the root does not have exactly one child and the bounds are    *)
(* positive with n_mc_min <= n_mc_max, the number of passes run is         *)
(* clamp(n_mc_target * legal actions - root.n, n_mc_min, n_mc_max), lies   *)
(* in [n_mc_min, n_mc_max] also for a negative difference, and is 15 for   *)
(* target 5, 3 legal actions, root.n = 0, bounds 5 and 100.                *)
C1_BudgetIsClamp ==
    (bud.phase = "done" /\ bud.n_children # 1
        /\ 1 <= n_mc_min /\ n_mc_min <= n_mc_max /\ n_mc_target >= 1)
    => /\ bud.passes = Clamp(n_mc_target * bud.n_legal - bud.root_n0,
                             n_mc_min, n_mc_max)
       /\ n_mc_min <= bud.passes /\ bud.passes <= n_mc_max
       /\ bud.root_n = bud.root_n0 + bud.passes
       /\ (n_mc_target = 5 /\ bud.n_legal = 3 /\ bud.root_n0 = 0
             /\ n_mc_min = 5 /\ n_mc_max = 100) => bud.passes = 15

C1_Witness ==
    /\ bud.phase = "done" /\ bud.n_children # 1
    /\ 1 <= n_mc_min /\ n_mc_min <= n_mc_max
    /\ n_mc_target * bud.n_legal - bud.root_n0 < 0
    /\ bud.passes = n_mc_min

C1_Scenario ==
    /\ bud.phase = "done" /\ n_mc_target = 5 /\ bud.n_legal = 3
    /\ bud.root_n0 = 0 /\ n_mc_min = 5 /\ n_mc_max = 100 /\ bud.passes = 15

(* C2: a decision taken on a root with exactly one child runs exactly one  *)
(* pass, and root.n grows by exactly one, whatever the precision and the   *)
(* visits already recorded at the root.                                    *)
C2_OneChildOnePass ==
    /\ (pc = "mcts" /\ obs.n_children = 1) => obs.passes + passes_left = 1
    /\ (pc = "decided" /\ obs.n_children = 1)
          => /\ obs.passes = 1
             /\ tree[mcts_head].n = obs.root_n + 1

C2_Witness ==
    /\ pc = "decided" /\ obs.n_children = 1 /\ obs.passes = 1
    /\ obs.root_n > 0 /\ n_mc_min > 1 /\ n_mc_target > 1

(* C3: no decision selects its action after zero passes. *)
C3_AtLeastOnePass ==
    (pc = "mcts" /\ passes_left = 0) => obs.passes >= 1

(* C4: update with done = False re-roots the tree at the chosen child:     *)
(* the chosen subtree keeps its nodes, their children, n, q, q_max,        *)
(* q_step, terminal flag and beam marker, paths below the new root are     *)
(* the old ones without the leading action, the new root's path is empty,  *)
(* and neither the old root nor any sibling subtree remains.               *)
IsAdvance ==
    /\ pc = "decided"
    /\ pc' = "idle"
    /\ ~EnvDone(env, Append(env_state, chosen))

SameStatistics(a, b) ==
    /\ a.n = b.n /\ a.q = b.q /\ a.q_max = b.q_max /\ a.q_step = b.q_step
    /\ a.terminal = b.terminal /\ a.in_beam = b.in_beam

AdvanceKeepsSubtree ==
    LET new == Append(mcts_head, chosen)
    IN  /\ mcts_head' = new
        /\ new \in DOMAIN tree
        /\ DOMAIN tree' = {k \in DOMAIN tree : IsPrefix(new, k)}
        /\ tree'[new].path = <<>>
        /\ \A k \in DOMAIN tree' :
              /\ SameStatistics(tree'[k], tree[k])
              /\ Children(tree', k) = Children(tree, k)
              /\ tree'[k].path = Tail(tree[k].path)
        /\ mcts_head \notin DOMAIN tree'
        /\ \A a \in Children(tree, mcts_head) \ {chosen} :
              \A k \in DOMAIN tree' : ~IsPrefix(Append(mcts_head, a), k)

(* C4: every re-rooting step keeps exactly the chosen subtree, with its    *)
(* statistics, and canonical paths.                                        *)
C4_AdvanceKeepsSubtree == [][IsAdvance => AdvanceKeepsSubtree]_vars

C4_Witness ==
    /\ pc = "idle" /\ Len(mcts_head) = 2 /\ Last(mcts_head) # 0
    /\ tree[mcts_head].n > 1
    /\ Cardinality(DOMAIN tree) > 1
    /\ \E k \in DOMAIN tree : Len(tree[k].path) = 1 /\ tree[k].n > 0

(* the backups that went through node k, and the best of their returns *)
Through(k) ==
    {i \in 1..Len(backups) :
        IsPrefix(k, backups[i].node) /\ IsPrefix(backups[i].root, k)}

RECURSIVE MaxReturn(_, _)
MaxReturn(S, floor) ==
    IF S = {} THEN floor
    ELSE LET i == CHOOSE x \in S : TRUE
         IN  Max2(backups[i].value, MaxReturn(S \ {i}, floor))

BestReturn(k) ==
    LET i == CHOOSE x \in Through(k) :
                 \A y \in Through(k) : backups[y].value <= backups[x].value
    IN  backups[i].value

(* C5 as stated: n counts the backups through the node and q_max is the    *)
(* largest single return among them, or the minimum reward bound if there  *)
(* was none.                                                               *)
C5_QMaxIsBestReturn ==
    \A k \in DOMAIN tree :
        /\ tree[k].n = Cardinality(Through(k))
        /\ tree[k].q_max = IF Through(k) = {} THEN reward_range[1]
                           ELSE BestReturn(k)

(* C5, amended: n counts the backups through the node; q_max never         *)
(* decreases and is the larger of the minimum reward bound and the largest *)
(* single return backed up through the node.                               *)
C5_CountsAndFlooredMax ==
    \A k \in DOMAIN tree :
        /\ tree[k].n = Cardinality(Through(k))
        /\ tree[k].q_max = MaxReturn(Through(k), reward_range[1])

(* a step that initialises an episode: update at the end of an episode,    *)
(* or set_env                                                              *)
IsReset ==
    \/ pc = "decided" /\ EnvDone(env, Append(env_state, chosen))
    \/ pc = "idle" /\ pc' = "idle" /\ config' = config

QMaxNeverDecreases ==
    ~IsReset => \A k \in DOMAIN tree \cap DOMAIN tree' :
                    tree'[k].q_max >= tree[k].q_max

(* C5 (amended): in every state n counts the backups through the node and  *)
(* q_max is the floored best return; no step lowers a q_max.               *)
C5_BackupStatistics ==
    []C5_CountsAndFlooredMax /\ [][QMaxNeverDecreases]_vars

C5_Witness ==
    /\ mcts_head # <<>>
    /\ \E k \in DOMAIN tree :
          /\ tree[k].n >= 3
          /\ tree[k].q # tree[k].n * tree[k].q_max
          /\ tree[k].q_max > reward_range[1]
          /\ \E i \in Through(k) : backups[i].value < reward_range[1]

(* C6: the action returned by _mcts is a child of the root and a legal     *)
(* action, its q_max is maximal among the root's children, it is the       *)
(* lowest such action, and this holds for both aggregation modes.          *)
C6_BestByQMax ==
    pc = "decided" =>
        /\ chosen \in Children(tree, mcts_head)
        /\ chosen \in FindLegalActions(env, env_state)
        /\ \A a \in Children(tree, mcts_head) :
              /\ tree[Append(mcts_head, a)].q_max
                    <= tree[Append(mcts_head, chosen)].q_max
              /\ (tree[Append(mcts_head, a)].q_max
                    = tree[Append(mcts_head, chosen)].q_max) => chosen <= a

C6_Witness ==
    /\ pc = "decided" /\ mcts_mode = "mean" /\ obs.passes >= 2
    /\ \E a \in Children(tree, mcts_head) :
          LET x == tree[Append(mcts_head, a)]
              y == tree[Append(mcts_head, chosen)]
          IN  /\ x.n > 0 /\ y.n > 0
              /\ x.q * y.n > y.q * x.n
              /\ x.q_max < y.q_max

(* C7: for every policy source _predict completes without an error of the  *)
(* policy evaluation, and the uniform random evaluator reports             *)
(* log(1 / number of legal actions).                                       *)
C7_DecideCompletes ==
    /\ pc = "error" => err \notin {"TypeError", "AssertionError"}
    /\ (pc = "decided" /\ agent = "RandomMCTSAgent")
          => info = <<1, Cardinality(FindLegalActions(env, env_state))>>

(* C8: in one invocation of _beam_search no node is processed twice, a     *)
(* node pushes at most beam_size children in a round, and the beam kept    *)
(* for the next round holds at most beam_size entries, those with the      *)
(* highest cumulative reward among the entries pushed in the round.        *)
NoDuplicates(seq) ==
    \A i, j \in 1..Len(seq) : seq[i] = seq[j] => i = j

PushedBy(node) ==
    {i \in 1..Len(obs.beam_pushed) : Front(obs.beam_pushed[i][2]) = node}

InBeam(entry) == \E i \in 1..Len(beam) : beam[i] = entry

(* C8: no node twice on the beam, at most beam_size children pushed per    *)
(* node, and the beam kept is the top beam_size of the pushed entries.     *)
C8_BeamBounded ==
    /\ NoDuplicates(obs.beam_seen)
    /\ \A k \in DOMAIN tree : Cardinality(PushedBy(k)) <= beam_size
    /\ (pc = "beam" /\ obs.rounds > 0) =>
          /\ Len(beam) <= beam_size
          /\ Len(beam) = Min2(beam_size, Len(obs.beam_pushed))
          /\ NoDuplicates(beam)
          /\ \A i \in 1..Len(beam) :
                \E j \in 1..Len(obs.beam_pushed) : obs.beam_pushed[j] = beam[i]
          /\ \A j \in 1..Len(obs.beam_pushed) :
                InBeam(obs.beam_pushed[j])
                \/ \A i \in 1..Len(beam) : obs.beam_pushed[j][1] <= beam[i][1]

C8_Witness ==
    /\ pc = "beam" /\ obs.rounds > 1
    /\ Len(obs.beam_pushed) > beam_size
    /\ Len(beam) = beam_size
    /\ \E j \in 1..Len(obs.beam_pushed) :
          /\ ~InBeam(obs.beam_pushed[j])
          /\ obs.beam_pushed[j][1] < beam[Len(beam)][1]

(* a state the environment does not report as terminal, without a legal    *)
(* action                                                                  *)
DeadEnd(e, s) == ~EnvDone(e, s) /\ EnvLegal(e, s) = {}

(* _greedy stands at a node flagged terminal: its loop ends and it returns *)
GreedyAtExit == pc = "greedy" /\ tree[gnode].terminal

(* C9: greedy expansion always terminates, having descended from the root  *)
(* to a terminal node: every started _greedy arrives at a node flagged     *)
(* terminal, where it backs up and returns.                                *)
C9_GreedyReachesTerminal == (pc = "greedy") ~> GreedyAtExit

(* a step of the model that is one completed simulation pass *)
IsPass == pc = "mcts" /\ pc' = "mcts" /\ obs'.passes = obs.passes + 1

(* the root as the pass sees it when it selects: expanded *)
RootAtSelect ==
    IF Children(tree, mcts_head) = {}
    THEN ExpandNode(tree, mcts_head, env, env_state, reward_range)
    ELSE tree

RootPriors ==
    [a \in Children(RootAtSelect, mcts_head) |-> PolicyWeight(policy, a)]

RootChild(a) == RootAtSelect[Append(mcts_head, a)]

(* the exploitation term of root child a from its n, q, q_max and q_step,  *)
(* as a pair <<numerator, denominator>>: the step reward while the child   *)
(* is unvisited, then the mean q/n or q_max, limited to the reward range   *)
Exploitation(a) ==
    LET nd  == RootChild(a)
        raw == IF nd.n = 0 THEN <<nd.q_step, 1>>
               ELSE IF mcts_mode = "max" THEN <<nd.q_max, 1>>
               ELSE <<nd.q, nd.n>>
    IN  IF raw[1] < reward_range[1] * raw[2] THEN <<reward_range[1], 1>>
        ELSE IF raw[1] > reward_range[2] * raw[2] THEN <<reward_range[2], 1>>
        ELSE raw

ExploitsAtLeast(a, b) ==
    Exploitation(a)[1] * Exploitation(b)[2]
        >= Exploitation(b)[1] * Exploitation(a)[2]

(* exploration bonus of a at least that of b: c_puct * p * sqrt(N) / (1+n) *)
(* with N the visits of the root; every bonus is 0 while N = 0             *)
ExploresAtLeast(a, b) ==
    \/ tree[mcts_head].n = 0
    \/ c_puct * RootPriors[a] * (1 + RootChild(b).n)
          >= c_puct * RootPriors[b] * (1 + RootChild(a).n)

(* the scenario: legal actions {0, 1, 2} with step rewards -1.0, -0.5,     *)
(* -2.0, uniform probabilities, c_puct = 1.0, a freshly expanded root      *)
PuctScenario ==
    /\ env = "A" /\ env_state = <<>> /\ policy = "uniform" /\ c_puct = 1
    /\ agent = "MCTSAgent" /\ tree[mcts_head].n = 0

(* the action selected at the root by a pass is a child that no other      *)
(* child beats in both terms of the score; among children equal in both    *)
(* terms it is the one of the lowest action id; in the scenario it is      *)
(* action 1                                                                *)
PuctSelection ==
    LET a  == Last(backups').node[Len(mcts_head) + 1]
        cs == Children(RootAtSelect, mcts_head)
    IN  /\ a \in cs
        /\ \A b \in cs :
              (ExploitsAtLeast(b, a) /\ ExploresAtLeast(b, a))
                 => /\ ExploitsAtLeast(a, b) /\ ExploresAtLeast(a, b)
                    /\ a <= b
        /\ PuctScenario => a = 1

ValidConfig ==
    /\ mcts_mode \in {"mean", "max"}
    /\ 1 <= n_mc_min /\ n_mc_min <= n_mc_max
    /\ c_puct > 0
    /\ agent = "MCBSAgent" => beam_size >= 1

(* C11: an invalid configuration is rejected when it is supplied, so no    *)
(* search (greedy, beam or MCTS) ever runs with an invalid configuration.  *)
C11_SearchHasValidConfig ==
    pc \in {"greedy", "beam", "mcts"} => ValidConfig

(* C12: a node that is not terminal and has no legal action is treated as  *)
(* terminal: no pass and no greedy descent fails for want of a child       *)
(* there, and beam search backs up at every such node it processes.        *)
C12_DeadEndIsTerminal ==
    /\ ~(pc = "error" /\ err \in {"NoChildren", "RuntimeError"}
           /\ (passes_left > 0 \/ DeadEnd(env, gnode)))
    /\ \A i \in 1..Len(obs.beam_seen) :
          LET k == obs.beam_seen[i]
          IN  (pc = "beam" /\ DeadEnd(env, k)) => tree[k].n >= 1

(* the pass just completed backed up b.value from b.node: the value is the *)
(* episode reward so far plus the reward of the path from the root to      *)
(* b.node, and n grew by one on exactly the nodes from the root to b.node  *)
PassBacksUpPath ==
    LET b == Last(backups')
        visited == {k \in DOMAIN tree' :
                       IsPrefix(mcts_head, k) /\ IsPrefix(k, b.node)}
    IN  /\ b.value = episode_reward
                       + ParsePath(env, env_state, tree'[b.node].path).total_reward
        /\ \A k \in DOMAIN tree' :
              tree'[k].n = (IF k \in DOMAIN tree THEN tree[k].n ELSE 0)
                           + (IF k \in visited THEN 1 ELSE 0)

(* C13: every pass backs up the episode reward so far plus the cumulative  *)
(* reward of the path from the root to the node where the pass ended, and  *)
(* increments n on exactly the nodes of that path, whether the pass ended  *)
(* at a terminal node or on the depth cap.                                 *)
C13_BackupIsPathReturn == [][IsPass => PassBacksUpPath]_vars

TerminalHasNoChildren ==
    \A k \in DOMAIN tree : tree[k].terminal => Children(tree, k) = {}

(* a step other than an episode reset leaves the child actions and the     *)
(* children's q_step of every expanded node as they are                    *)
ExpansionIsFinal ==
    ~IsReset =>
        \A k \in DOMAIN tree \cap DOMAIN tree' :
            Children(tree, k) # {} =>
                /\ Children(tree', k) = Children(tree, k)
                /\ \A a \in Children(tree, k) :
                      tree'[Append(k, a)].q_step = tree[Append(k, a)].q_step

(* C14: once a node has children, no pass, greedy call, beam call or       *)
(* advance changes its child actions or a child's q_step; a node flagged   *)
(* terminal has no children.                                               *)
C14_ExpansionOnce == []TerminalHasNoChildren /\ [][ExpansionIsFinal]_vars

C14_Witness ==
    /\ agent = "MCBSAgent" /\ pc = "decided" /\ Len(mcts_head) = 1
    /\ obs.passes >= 1 /\ obs.rounds >= 2
    /\ \E a \in Children(tree, mcts_head) :
          /\ tree[Append(mcts_head, a)].q_step # 0
          /\ tree[Append(mcts_head, a)].n >= 2
    /\ \E k \in DOMAIN tree : tree[k].terminal /\ tree[k].n >= 3

(* C15: every call of _greedy ends with exactly one backup, made from the  *)
(* terminal node it descended to, also when that node had been reached     *)
(* and flagged terminal before the call.                                   *)
C15_GreedyBacksUpOnce ==
    GreedyAtExit =>
        /\ Len(backups) = obs.start + 1
        /\ Last(backups).node = gnode
        /\ Last(backups).root = mcts_head

(* a step of the model that is one round of the loop of _beam_search *)
IsBeamRound == pc = "beam" /\ pc' = "beam" /\ obs'.rounds = obs.rounds + 1

(* the round backs up, once, from every terminal node on the beam: the     *)
(* episode reward so far plus the reward of the node's path                *)
BeamBacksUpTerminals ==
    \A i \in 1..Len(beam) :
        LET k == beam[i][2]
            made == {j \in (Len(backups) + 1)..Len(backups') :
                        backups'[j].node = k}
        IN  EnvDone(env, k) =>
                /\ Cardinality(made) = 1
                /\ \A j \in made :
                      /\ backups'[j].root = mcts_head
                      /\ backups'[j].value = episode_reward
                            + ParsePath(env, env_state, tree[k].path).total_reward
                /\ tree'[k].terminal
                /\ tree'[k].n = tree[k].n + 1

(* the loop is left only with an empty beam, and an empty beam ends it *)
BeamExitsWhenEmpty ==
    /\ (pc = "beam" /\ pc' # "beam") => beam = <<>>
    /\ (pc = "beam" /\ beam = <<>>) => pc' # "beam"

(* C16: _beam_search terminates; its loop ends exactly when the beam (and  *)
(* the next beam) is empty; every terminal node that entered the beam has  *)
(* received a backup of the episode reward so far plus its path's reward.  *)
C16_BeamTerminates ==
    /\ [][(IsBeamRound => BeamBacksUpTerminals) /\ BeamExitsWhenEmpty]_vars
    /\ ((pc = "beam") ~> (pc = "mcts"))

C16_Witness ==
    /\ agent = "MCBSAgent" /\ pc = "mcts" /\ obs.passes = 0
    /\ obs.rounds >= 3 /\ beam = <<>> /\ beam_size = 2
    /\ \E i, j \in 1..Len(obs.beam_seen) :
          /\ i < j
          /\ tree[obs.beam_seen[i]].terminal /\ tree[obs.beam_seen[j]].terminal
          /\ tree[obs.beam_seen[j]].n >= 1

(* the sum of the visit counts of the children cs of node k *)
RECURSIVE SumVisits(_, _, _)
SumVisits(t, k, cs) ==
    IF cs = {} THEN 0
    ELSE LET a == CHOOSE x \in cs : TRUE
         IN  t[Append(k, a)].n + SumVisits(t, k, cs \ {a})

(* the backups of the episode that started at node k *)
StartedAt(k) == {i \in 1..Len(backups) : backups[i].node = k}

(* C17: a node's n is at least the sum of its children's n (it is that sum *)
(* plus the number of backups started at the node), and equal to it at a   *)
(* node where no backup started, so at every node that is not terminal,    *)
(* the root included, also after re-rooting.                               *)
C17_VisitsCoverChildren ==
    \A k \in DOMAIN tree :
        LET sum == SumVisits(tree, k, Children(tree, k))
        IN  /\ tree[k].n >= sum
            /\ tree[k].n = sum + Cardinality(StartedAt(k))
            /\ StartedAt(k) = {} => tree[k].n = sum
            /\ ~tree[k].terminal => tree[k].n = sum

C17_Witness ==
    /\ pc = "mcts" /\ Len(mcts_head) = 1 /\ obs.passes >= 1
    /\ ~tree[mcts_head].terminal
    /\ tree[mcts_head].n >= 3
    /\ Cardinality({a \in Children(tree, mcts_head) :
                       tree[Append(mcts_head, a)].n >= 1}) >= 2
    /\ \E k \in DOMAIN tree : tree[k].terminal /\ tree[k].n >= 2

(* the return of the episode trajectory k, from the start of the episode *)
EpisodeReturn(k) ==
    FollowPath(env, obs.origin, Suffix(k, Len(obs.origin)), 0).total_reward

(* every backup started at a terminal node carries the return of the whole *)
(* trajectory ending there; episode_reward is the return of the steps      *)
(* taken so far, 0 at the start of an episode                              *)
TerminalBackupsConstant ==
    /\ episode_reward = EpisodeReturn(env_state)
    /\ env_state = obs.origin => episode_reward = 0
    /\ \A i \in 1..Len(backups) :
          EnvDone(env, backups[i].node)
              => backups[i].value = EpisodeReturn(backups[i].node)

(* C18 as stated: the backups at a terminal node all carry the return of   *)
(* the trajectory ending there, so a terminal node with n > 0 has          *)
(* q = n * q_max.                                                          *)
C18_TerminalQIsNTimesMax ==
    /\ TerminalBackupsConstant
    /\ \A k \in DOMAIN tree :
          (tree[k].terminal /\ tree[k].n > 0)
              => tree[k].q = tree[k].n * tree[k].q_max

(* C18, amended: the backups at a terminal node all carry the return of    *)
(* the trajectory ending there, whatever the decision step and the         *)
(* strategy; a terminal node with n > 0 has q = n * that return, and its   *)
(* q_max is the larger of the minimum reward bound and that return.        *)
C18_TerminalReturnConstant ==
    /\ TerminalBackupsConstant
    /\ \A k \in DOMAIN tree :
          (tree[k].terminal /\ tree[k].n > 0)
              => /\ tree[k].q = tree[k].n * EpisodeReturn(k)
                 /\ tree[k].q_max = Max2(reward_range[1], EpisodeReturn(k))
                 /\ EpisodeReturn(k) >= reward_range[1]
                       => tree[k].q = tree[k].n * tree[k].q_max

C18_Witness ==
    /\ episode_reward < 0
    /\ \E k \in DOMAIN tree :
          /\ tree[k].terminal /\ tree[k].n >= 3
          /\ tree[k].q = tree[k].n * tree[k].q_max
          /\ \E i, j \in StartedAt(k) : backups[i].root # backups[j].root

(* C19: a second run of _beam_search from the same root, right after the   *)
(* first, pushes nothing to the beam, adds no node, makes no backup and    *)
(* leaves n, q, q_max and the children of every node unchanged.            *)
C19_SecondBeamRunIdle ==
    (bud.phase = "twice" /\ bud.runs = 1 /\ pc = "beam") =>
        /\ obs.beam_pushed = <<>>
        /\ DOMAIN tree = DOMAIN bud.snap
        /\ Len(backups) = bud.log
        /\ \A k \in DOMAIN tree \cap DOMAIN bud.snap :
              /\ tree[k].n = bud.snap[k].n
              /\ tree[k].q = bud.snap[k].q
              /\ tree[k].q_max = bud.snap[k].q_max

====
